---- MODULE Spec2Model ----
(***************************************************************************)
(* A model of mintyparse's WZ archive reader: parser.Parse and the         *)
(* WzReader methods it drives (ReadHeader, ReadVersionHeader,              *)
(* determineVersionHash, bruteforceVersion, tryVersion, ReadDir,           *)
(* ReadDirEntryMetadata), over the byte-stream primitives and the crypto   *)
(* helpers of package wz.                                                  *)
(*                                                                         *)
(* The archive is a finite sequence of bytes; the stream is that sequence  *)
(* and a position.  A uint32 is kept as two 16-bit halves [hi, lo] so that *)
(* its wrap-around arithmetic is computed exactly.                         *)
(***************************************************************************)
EXTENDS Integers, Sequences, FiniteSets, TLC

VARIABLES
    file,           \* the archive bytes (WzReader.file's content)
    pos,            \* the stream position of WzReader.file
    region,         \* cfg.GameRegion
    userVersion,    \* cfg.GameVersion, a sequence of character codes
    header,         \* WzReader.header
    key,            \* WzReader.key
    versionHeader,  \* WzReader.versionHeader
    versionHash,    \* WzReader.versionHash
    pc,             \* where Parse is
    err,            \* the error Parse returns ("" while it has none)
    startPos,       \* bruteforceVersion: startPos
    cand,           \* bruteforceVersion: index of the candidate under the loop
    oldHash,        \* tryVersion: oldHash
    tryResult,      \* tryVersion: the value it returned
    probed,         \* the candidates handed to tryVersion so far, with results
    stack,          \* ReadDirEntryMetadata: the pending Reference frames
    ret,            \* ReadDirEntryMetadata: the value the last call returned
    d,              \* ReadDir: d
    i,              \* ReadDir: i
    dir,            \* the directory ReadDir returned
    arg,            \* the arguments of a primitive called on its own
    out,            \* what that call returned
    reads           \* Key.ByteAt: the calls made so far, with their results

vars == <<file, pos, region, userVersion, header, key, versionHeader,
          versionHash, pc, err, startPos, cand, oldHash, tryResult, probed,
          stack, ret, d, i, dir, arg, out, reads>>

\* What only the calls of a primitive on its own change.
direct == <<arg, out, reads>>

----------------------------------------------------------------------------
(* Fixed-width arithmetic *)

W16 == 65536

\* 2^n for n in 0..16.
Pow2(n) == <<1, 2, 4, 8, 16, 32, 64, 128, 256, 512, 1024, 2048, 4096, 8192,
             16384, 32768, 65536>>[n + 1]

\* Bit k of a XOR b, in place.
XorBit(a, b, k) == (((a \div Pow2(k)) + (b \div Pow2(k))) % 2) * Pow2(k)

Xor8(a, b) ==
    XorBit(a, b, 0) + XorBit(a, b, 1) + XorBit(a, b, 2) + XorBit(a, b, 3)
    + XorBit(a, b, 4) + XorBit(a, b, 5) + XorBit(a, b, 6) + XorBit(a, b, 7)

Xor16(a, b) == Xor8(a % 256, b % 256) + 256 * Xor8(a \div 256, b \div 256)

\* A uint32 with the given halves, and the uint32 of an integer 0 <= n < 2^31.
U32(hi, lo) == [hi |-> hi, lo |-> lo]

U32Of(n) == U32(n \div W16, n % W16)

\* int(u) for a uint32 below 2^31.
IntOf(u) == u.hi * W16 + u.lo

Add32(a, b) ==
    LET lo == a.lo + b.lo
        hi == a.hi + b.hi + (lo \div W16)
    IN  U32(hi % W16, lo % W16)

Sub32(a, b) ==
    LET lo == a.lo - b.lo
        borrow == IF lo < 0 THEN 1 ELSE 0
        hi == a.hi - b.hi - borrow
    IN  U32((hi + 2 * W16) % W16, (lo + W16) % W16)

Xor32(a, b) == U32(Xor16(a.hi, b.hi), Xor16(a.lo, b.lo))

\* The product of two 16-bit values, as a uint32.
Mul16(x, y) ==
    LET p0 == x * (y % 256)
        p1 == x * (y \div 256)
        s  == p0 + (p1 % 256) * 256
    IN  U32(((p1 \div 256) + (s \div W16)) % W16, s % W16)

Mul32(a, b) ==
    LET ll == Mul16(a.lo, b.lo)
        hl == Mul16(a.hi, b.lo)
        lh == Mul16(a.lo, b.hi)
    IN  U32((ll.hi + hl.lo + lh.lo) % W16, ll.lo)

\* x << n alone: the bits shifted out are lost.
rotateLeft_ShiftOnly(x, n) ==
    LET s == n % 16
        a == IF n >= 16 THEN U32(x.lo, 0) ELSE x
    IN  U32(((a.hi * Pow2(s)) % W16) + (a.lo \div Pow2(16 - s)),
            (a.lo * Pow2(s)) % W16)

\* (x << n) | (x >> (32 - n)) for n in 0..31: a rotation by 16 swaps the
\* halves, one by s < 16 moves the top s bits of each half into the other.
rotateLeft(x, n) ==
    LET s == n % 16
        a == IF n >= 16 THEN U32(x.lo, x.hi) ELSE x
    IN  U32(((a.hi * Pow2(s)) % W16) + (a.lo \div Pow2(16 - s)),
            ((a.lo * Pow2(s)) % W16) + (a.hi \div Pow2(16 - s)))

OffsetConstant == U32(22556, 16237)    \* 0x581C3F6D

DecryptOffset(currentPos, bodyOffset, vHash, encryptedOffset) ==
    LET o1 == Xor32(Sub32(currentPos, bodyOffset), U32(65535, 65535))
        o2 == Mul32(o1, vHash)
        o3 == Sub32(o2, OffsetConstant)
        o4 == rotateLeft(o3, o3.lo % 32)
        o5 == Xor32(o4, encryptedOffset)
    IN  Add32(o5, Add32(bodyOffset, bodyOffset))

RECURSIVE VersionHashFrom(_, _)
VersionHashFrom(hash, version) ==
    IF version = <<>> THEN hash
    ELSE VersionHashFrom(Add32(Mul32(hash, U32Of(32)), U32Of(Head(version) + 1)),
                         Tail(version))

VersionHash(version) == VersionHashFrom(U32Of(0), version)

ObfuscateVersionHash(hash) ==
    LET b1 == hash.lo % 256
        b2 == hash.lo \div 256
        b3 == hash.hi % 256
        b4 == hash.hi \div 256
        result == Xor8(Xor8(b1, b2), Xor8(b3, b4))
    IN  255 - result

\* fmt.Sprintf("%d", v) for v >= 1, as character codes.
RECURSIVE Sprintf(_)
Sprintf(v) ==
    IF v < 10 THEN <<48 + v>> ELSE Append(Sprintf(v \div 10), 48 + (v % 10))

----------------------------------------------------------------------------
(* The stream: io.ReadFull, binary.Read and Seek on a byte sequence *)

\* io.ReadFull / binary.Read of n bytes at position p: whether it succeeds, and
\* where it leaves the stream (a short read consumes what is left).
ReadOk(f, p, n) == n = 0 \/ p + n <= Len(f)

ReadEnd(f, p, n) ==
    IF ReadOk(f, p, n) THEN p + n ELSE IF p >= Len(f) THEN p ELSE Len(f)

ByteAt(f, p) == f[p + 1]

\* The byte taken as unsigned.
Int8_Unsigned(b) == b

Int8(b) == IF b >= 128 THEN b - 256 ELSE b

LE16(f, p) == ByteAt(f, p) + 256 * ByteAt(f, p + 1)

\* A little-endian int32 and uint32 at p.
Int32At(f, p) ==
    LE16(f, p) + W16 * ByteAt(f, p + 2) + 256 * W16 * Int8(ByteAt(f, p + 3))

Uint32At(f, p) == U32(LE16(f, p + 2), LE16(f, p))

\* A reader that never takes the five-byte form.
IsLongForm_Never(sb) == FALSE

\* ReadCompressedInt32's test of the marker: sb == -128.
IsLongForm(sb) == sb = -128

ReadCompressedInt32(f, p) ==
    IF ~ReadOk(f, p, 1) THEN [ok |-> FALSE, val |-> 0, pos |-> ReadEnd(f, p, 1)]
    ELSE IF IsLongForm(Int8(ByteAt(f, p)))
         THEN IF ~ReadOk(f, p + 1, 4)
              THEN [ok |-> FALSE, val |-> 0, pos |-> ReadEnd(f, p + 1, 4)]
              ELSE [ok |-> TRUE, val |-> Int32At(f, p + 1), pos |-> p + 5]
         ELSE [ok |-> TRUE, val |-> Int8(ByteAt(f, p)), pos |-> p + 1]

decryptASCII(f, p, n) ==
    [k \in 1..n |-> Xor8(ByteAt(f, p + k - 1), (170 + k - 1) % 256)]

decryptUnicode(f, p, n) ==
    [k \in 1..n |-> Xor16(LE16(f, p + 2 * (k - 1)), (43690 + k - 1) % W16)]

DecryptString(f, p, n, isUnicode) ==
    IF isUnicode THEN decryptUnicode(f, p, n) ELSE decryptASCII(f, p, n)

\* A byte length of one byte per unit, UTF-16 or not.
ByteLength_OnePerUnit(length, isUnicode) == length

\* byteLength of ReadEncryptedString: two bytes per UTF-16 unit.
ByteLength(length, isUnicode) == IF isUnicode THEN 2 * length ELSE length

\* The string data of ReadEncryptedString: length units at p.
ReadStringData(f, p, length, isUnicode) ==
    LET fits == IF isUnicode THEN p <= Len(f) /\ length <= (Len(f) - p) \div 2
                ELSE p <= Len(f) /\ length <= Len(f) - p
        byteLength == ByteLength(length, isUnicode)
    IN  IF length < 0 THEN [ok |-> FALSE, str |-> <<>>, pos |-> p]
        ELSE IF length = 0 THEN [ok |-> TRUE, str |-> <<>>, pos |-> p]
        ELSE IF ~fits
             THEN [ok |-> FALSE, str |-> <<>>,
                   pos |-> IF p >= Len(f) THEN p ELSE Len(f)]
             ELSE [ok |-> TRUE, str |-> DecryptString(f, p, length, isUnicode),
                   pos |-> p + byteLength]

ReadEncryptedString(f, p) ==
    IF ~ReadOk(f, p, 1) THEN [ok |-> FALSE, str |-> <<>>, pos |-> ReadEnd(f, p, 1)]
    ELSE LET lengthIndicator == Int8(ByteAt(f, p))
         IN  IF lengthIndicator = 0 THEN [ok |-> TRUE, str |-> <<>>, pos |-> p + 1]
             ELSE IF lengthIndicator > 0 /\ lengthIndicator < 127
                  THEN ReadStringData(f, p + 1, lengthIndicator, TRUE)
             ELSE IF lengthIndicator < 0 /\ lengthIndicator > -128
                  THEN ReadStringData(f, p + 1, -lengthIndicator, FALSE)
             ELSE IF ~ReadOk(f, p + 1, 4)
                  THEN [ok |-> FALSE, str |-> <<>>, pos |-> ReadEnd(f, p + 1, 4)]
                  ELSE ReadStringData(f, p + 5, Int32At(f, p + 1),
                                      lengthIndicator = 127)

\* Seek(offset, io.SeekStart) fails, and leaves the position alone, on a
\* negative offset.
SeekOk(offset) == offset >= 0

\* A seek back that runs only when the string was read.
SeekBack_OnSuccess(saved, current, ok) == IF ok THEN saved ELSE current

\* The position the deferred rs.Seek(currentPos, io.SeekStart) of
\* ReadOffsetOrInlineString leaves the stream at.
SeekBack(saved, current, ok) == saved

ReadOffsetOrInlineString(f, p) ==
    IF ~ReadOk(f, p, 1) THEN [ok |-> FALSE, str |-> <<>>, pos |-> ReadEnd(f, p, 1)]
    ELSE LET indicator == ByteAt(f, p)
         IN  IF indicator \in {0, 115} THEN ReadEncryptedString(f, p + 1)
             ELSE IF indicator \in {1, 27}
                  THEN IF ~ReadOk(f, p + 1, 4)
                       THEN [ok |-> FALSE, str |-> <<>>, pos |-> ReadEnd(f, p + 1, 4)]
                       ELSE LET offset == Int32At(f, p + 1)
                                currentPos == p + 5
                                s == ReadEncryptedString(f, offset)
                            IN  IF ~SeekOk(offset)
                                THEN [ok |-> FALSE, str |-> <<>>,
                                      pos |-> SeekBack(currentPos, currentPos, FALSE)]
                                ELSE [ok |-> s.ok, str |-> s.str,
                                      pos |-> SeekBack(currentPos, s.pos, s.ok)]
             ELSE [ok |-> FALSE, str |-> <<>>, pos |-> p + 1]

ReadEncryptedOffset(f, p, bodyOffset, vHash) ==
    IF ~ReadOk(f, p, 4) THEN [ok |-> FALSE, val |-> U32Of(0), pos |-> ReadEnd(f, p, 4)]
    ELSE [ok |-> TRUE,
          val |-> DecryptOffset(U32Of(p), bodyOffset, vHash, Uint32At(f, p)),
          pos |-> p + 4]

----------------------------------------------------------------------------
(* The reader's operations, as functions of the archive *)

Magic == <<80, 75, 71, 49>>    \* "PKG1"

\* copyrightEnd of ReadHeader: the index of the first byte that is not
\* printable ASCII, then len(headerData) when that index is 0.
CopyrightEnd(headerData) ==
    LET bad == {k \in 1..Len(headerData) :
                    headerData[k] < 32 \/ headerData[k] > 126}
        first == IF bad = {} THEN 0
                 ELSE (CHOOSE k \in bad : \A m \in bad : k <= m) - 1
    IN  IF first = 0 THEN Len(headerData) ELSE first

NoHeader == [Magic |-> <<>>, BodySize |-> <<>>, BodyOffset |-> U32Of(0),
             Copyright |-> <<>>]

ReadHeaderFail(e, p) == [ok |-> FALSE, err |-> e, pos |-> p, h |-> NoHeader]

\* A header read that stops where the copyright text ends.
HeaderEnd_AtCopyright(bo, copyrightEnd) == 16 + copyrightEnd

\* Where io.ReadFull(r.file, headerData) leaves the stream: all of the
\* remainingHeaderBytes after offset 16 are read.
HeaderEnd(bo, copyrightEnd) == 16 + (bo - 16)

\* ReadHeader accepting any body offset.
BodyOffsetOk_Any(bo) == TRUE

\* ReadHeader's check of remainingHeaderBytes = BodyOffset - 16 >= 0.
BodyOffsetOk(bo) == ~(bo.hi = 0 /\ bo.lo < 16)

ReadHeaderResult(f) ==
    LET bo == Uint32At(f, 12)
        remainingHeaderBytes == IntOf(bo) - 16
        headerData == SubSeq(f, 17, IntOf(bo))
    IN  IF ~ReadOk(f, 0, 4)
        THEN ReadHeaderFail("failed to read magic", ReadEnd(f, 0, 4))
        ELSE IF SubSeq(f, 1, 4) # Magic
        THEN ReadHeaderFail("invalid WZ magic", 4)
        ELSE IF ~ReadOk(f, 4, 8)
        THEN ReadHeaderFail("failed to read body size", ReadEnd(f, 4, 8))
        ELSE IF ~ReadOk(f, 12, 4)
        THEN ReadHeaderFail("failed to read body offset", ReadEnd(f, 12, 4))
        ELSE IF ~BodyOffsetOk(bo)
        THEN ReadHeaderFail("invalid BodyOffset", 16)
        ELSE IF bo.hi >= 32768 \/ ~ReadOk(f, 16, remainingHeaderBytes)
        THEN ReadHeaderFail("failed to read header data",
                            IF Len(f) > 16 THEN Len(f) ELSE 16)
        ELSE [ok |-> TRUE, err |-> "",
              pos |-> HeaderEnd(IntOf(bo), CopyrightEnd(headerData)),
              h |-> [Magic |-> SubSeq(f, 1, 4), BodySize |-> SubSeq(f, 5, 12),
                     BodyOffset |-> bo,
                     Copyright |-> SubSeq(headerData, 1, CopyrightEnd(headerData))]]

NoKey == [iv |-> <<>>, keyData |-> <<>>]

IVForVersion(r) ==
    CASE r = "gms" -> [ok |-> TRUE, iv |-> <<77, 35, 199, 43>>]
      [] r = "kms" -> [ok |-> TRUE, iv |-> <<185, 125, 99, 233>>]
      [] r = "sea" -> [ok |-> TRUE, iv |-> <<46, 35, 18, 97>>]
      [] r = "tms" -> [ok |-> TRUE, iv |-> <<46, 18, 97, 154>>]
      [] OTHER     -> [ok |-> FALSE, iv |-> <<>>]

NewKey(iv) == [iv |-> iv, keyData |-> <<>>]

\* The first 16 bytes of the key stream: AES-256-ECB, under the key NewKey
\* trims from UserKey, of the IV repeated four times; zeros for the zero IV.
FirstKeyBlock(iv) ==
    CASE iv = <<77, 35, 199, 43>> ->
           <<150, 174, 63, 164, 72, 250, 221, 144, 70, 118, 5, 97, 151, 206, 120, 104>>
      [] iv = <<185, 125, 99, 233>> ->
           <<171, 101, 73, 5, 103, 205, 87, 10, 152, 123, 135, 10, 236, 101, 7, 139>>
      [] iv = <<46, 35, 18, 97>> ->
           <<112, 226, 180, 200, 94, 54, 138, 11, 98, 25, 175, 70, 37, 144, 111, 48>>
      [] iv = <<46, 18, 97, 154>> ->
           <<93, 27, 220, 182, 168, 103, 141, 107, 248, 78, 198, 103, 190, 249, 207, 242>>
      [] OTHER -> [k \in 1..16 |-> 0]

\* The detector without its seek back to the body offset.
SeekBodyOffset_Stay(bo, current) == current

\* The position the detector's Seek(BodyOffset, io.SeekStart) leaves the
\* stream at when the 16-bit value is above 0xFF.
SeekBodyOffset(bo, current) == bo

\* ReadVersionHeader at position p = body offset bo: the value returned, and
\* where the stream is left.
ReadVersionHeaderResult(f, bo, p) ==
    LET version == LE16(f, p)
        c == ReadCompressedInt32(f, bo)
    IN  IF ~ReadOk(f, p, 2)
        THEN [ok |-> FALSE, version |-> 0, pos |-> ReadEnd(f, p, 2)]
        ELSE IF version > 255
        THEN [ok |-> TRUE, version |-> 0, pos |-> SeekBodyOffset(bo, p + 2)]
        ELSE IF version = 128
        THEN IF ~c.ok
             THEN [ok |-> FALSE, version |-> 0, pos |-> c.pos]
             ELSE IF c.val > 0 /\ c.val <= 65535
             THEN [ok |-> TRUE, version |-> 0, pos |-> c.pos]
             ELSE [ok |-> TRUE, version |-> version, pos |-> bo + 2]
        ELSE [ok |-> TRUE, version |-> version, pos |-> p + 2]

\* The ranges with the oldest versions first.
getVersionRanges_OldFirst(vHeader) ==
    IF vHeader = 0
    THEN << [start |-> 770, end |-> 779] >>
    ELSE << [start |-> 1, end |-> 79], [start |-> 80, end |-> 99],
            [start |-> 100, end |-> 199], [start |-> 200, end |-> 300] >>

getVersionRanges(vHeader) ==
    IF vHeader = 0
    THEN << [start |-> 770, end |-> 779] >>
    ELSE << [start |-> 200, end |-> 300], [start |-> 100, end |-> 199],
            [start |-> 80, end |-> 99], [start |-> 1, end |-> 79] >>

\* The candidates in the order the two nested loops of bruteforceVersion
\* visit them.
RECURSIVE Candidates(_)
Candidates(ranges) ==
    IF ranges = <<>> THEN <<>>
    ELSE [k \in 1..(Head(ranges).end - Head(ranges).start + 1) |->
              Head(ranges).start + k - 1] \o Candidates(Tail(ranges))

\* bruteforceVersion without its filter.
MatchesHeader_Any(vHeader, hash) == TRUE

\* bruteforceVersion's filter: the candidate is handed to tryVersion.
MatchesHeader(vHeader, hash) ==
    vHeader = 0 \/ ObfuscateVersionHash(hash) = vHeader

IsLetter(ch) == (ch >= 65 /\ ch <= 90) \/ (ch >= 97 /\ ch <= 122)

IsNameChar(ch) == IsLetter(ch) \/ (ch >= 48 /\ ch <= 57) \/ ch \in {95, 46, 45}

\* A check of the name that passes every name.
isValidWzName_Any(name) == TRUE

isValidWzName(name) ==
    /\ Len(name) > 0
    /\ Len(name) <= 100
    /\ \A k \in 1..Len(name) : IsNameChar(name[k])
    /\ \E k \in 1..Len(name) : IsLetter(name[k])

\* tryVersion up to its call of ReadDirEntryMetadata: whether it goes on to
\* read the first entry, and where the stream is.
TryVersionStart(f, bo, vHeader) ==
    LET dirStart == IF vHeader # 0 THEN bo + 2 ELSE bo
        c == ReadCompressedInt32(f, dirStart)
    IN  IF ~c.ok THEN [ok |-> FALSE, pos |-> c.pos]
        ELSE IF c.val <= 0 \/ c.val > 1000 THEN [ok |-> FALSE, pos |-> c.pos]
        ELSE [ok |-> TRUE, pos |-> c.pos]

NoEntry == [Type |-> 0, Name |-> <<>>, FileSize |-> 0, Checksum |-> 0,
            DataOffset |-> U32Of(0)]

EntryErr(e, p) ==
    [kind |-> "err", err |-> e, pos |-> p, entry |-> NoEntry, deferred |-> FALSE,
     currentPos |-> 0]

\* The name of a Dir or File entry, read at p.
ReadEntryName(f, p) == ReadEncryptedString(f, p)

\* An Ignore entry whose ten bytes are not skipped.
SkipIgnored_Stay(p) == p

\* Seek(10, io.SeekCurrent) from p, right after the tag of an Ignore entry.
SkipIgnored(p) == p + 10

\* One call of ReadDirEntryMetadata with the stream at p.  kind is "entry"
\* (an entry returned), "nil" (nil, nil), "err" (an error) or "recurse" (the
\* call goes on into ReadDirEntryMetadata at pos); deferred tells that the
\* deferred Seek(currentPos) was registered.
EntryCall(f, p, bo, vHash) ==
    LET type == ByteAt(f, p)
        referenceOffset == Int32At(f, p + 1)
        absoluteOffset == bo + referenceOffset
        name == ReadEntryName(f, p + 1)
        size == ReadCompressedInt32(f, name.pos)
        sum  == ReadCompressedInt32(f, size.pos)
        off  == ReadEncryptedOffset(f, sum.pos, U32Of(bo), vHash)
    IN  IF ~ReadOk(f, p, 1)
        THEN EntryErr("failed to read entry type", ReadEnd(f, p, 1))
        ELSE IF type = 1
        THEN [kind |-> "nil", err |-> "", pos |-> SkipIgnored(p + 1), entry |-> NoEntry,
              deferred |-> FALSE, currentPos |-> 0]
        ELSE IF type = 2
        THEN IF ~ReadOk(f, p + 1, 4)
             THEN EntryErr("failed to read reference offset", ReadEnd(f, p + 1, 4))
             ELSE IF ~SeekOk(absoluteOffset)
             THEN [kind |-> "err", err |-> "failed to seek to referenced entry",
                   pos |-> p + 5, entry |-> NoEntry, deferred |-> TRUE,
                   currentPos |-> p + 5]
             ELSE [kind |-> "recurse", err |-> "", pos |-> absoluteOffset,
                   entry |-> NoEntry, deferred |-> TRUE, currentPos |-> p + 5]
        ELSE IF type \in {3, 4}
        THEN IF ~name.ok THEN EntryErr("failed to read entry name", name.pos)
             ELSE IF ~size.ok THEN EntryErr("failed to read file size", size.pos)
             ELSE IF ~sum.ok THEN EntryErr("failed to read checksum", sum.pos)
             ELSE IF ~off.ok THEN EntryErr("failed to read offset", off.pos)
             ELSE [kind |-> "entry", err |-> "", pos |-> off.pos,
                   entry |-> [Type |-> type, Name |-> name.str,
                              FileSize |-> size.val, Checksum |-> sum.val,
                              DataOffset |-> off.val],
                   deferred |-> FALSE, currentPos |-> 0]
        ELSE EntryErr("unknown directory entry type", p + 1)

\* A decoder that refuses a Reference reached through a Reference.
ReferenceCall_Limited(r, depth) ==
    IF r.kind = "recurse" /\ depth >= 1
    THEN [r EXCEPT !.kind = "err", !.err = "reference chain too deep",
                   !.pos = r.currentPos]
    ELSE r

\* return r.ReadDirEntryMetadata() in the Reference branch: the call is made
\* whatever the number of Reference frames already pending.
ReferenceCall(r, depth) == r

\* A deferred seek that does not run.
DeferredSeek_Skip(saved, current) == current

\* The position a deferred Seek(saved, io.SeekStart) leaves the stream at.
DeferredSeek(saved, current) == saved

NoRet == [kind |-> "none", err |-> "", entry |-> NoEntry]

NoDir == [EntryCount |-> 0, EntriesMetadata |-> <<>>, nil |-> TRUE]

\* ReadDir handing back the entries decoded before the failure.
DirOnError_Partial(partial) == partial

\* What ReadDir returns as its directory when an entry fails to decode.
DirOnError(partial) == NoDir

----------------------------------------------------------------------------
(* The archives, regions and versions the reader is run on *)

\* The fixed header with body offset bo < 256.
FixedHeader(bo) == Magic \o <<32, 161, 7, 0, 0, 0, 0, 0>> \o <<bo, 0, 0, 0>>

\* Entries, names encrypted with the running mask:
\* File "Cash", Dir "Map", File "Etc", File "a", File "#", File "UI" (UTF-16).
FileCash == <<4, 252, 233, 202, 223, 197, 10, 5, 1, 2, 3, 4>>
DirMap   == <<3, 253, 231, 202, 220, 0, 7, 9, 9, 9, 9>>
FileEtc  == <<4, 253, 239, 223, 207, 20, 6, 5, 6, 7, 8>>
FileA    == <<4, 255, 203, 1, 1, 0, 0, 0, 0>>
FileHash == <<4, 255, 137, 1, 1, 0, 0, 0, 0>>
FileUI   == <<4, 2, 255, 170, 226, 170, 3, 3, 1, 0, 0, 0>>
Ignored  == <<1, 0, 0, 0, 0, 0, 0, 0, 0, 0, 0>>
Ref(r)   == <<2, r, 0, 0, 0>>
RefBack  == <<2, 156, 255, 255, 255>>    \* relative offset -100

\* Root directories placed o bytes after the body offset.
DCash(o)    == <<1>> \o FileCash
DRefs(o)    == <<3>> \o Ref(o + 28) \o Ignored \o FileEtc \o DirMap
DChain(o)   == <<2>> \o Ref(o + 11) \o Ref(o + 100) \o Ref(o + 16) \o FileA
DRefIgn(o)  == <<2>> \o Ref(o + 15) \o FileA \o Ignored
DUnknown(o) == <<2>> \o FileA \o <<5>>
DHash(o)    == <<1>> \o FileHash
DCycle(o)   == <<1>> \o Ref(o + 1)
DBack(o)    == <<1>> \o RefBack
DUni(o)     == <<1>> \o FileUI
DNegative(o) == <<255>> \o FileA
DInline(o)  == <<1, 4, 0>> \o Tail(FileCash)
DLoop(o)    == <<1>> \o Ref(o + 6) \o Ref(o + 1)

Dirs(o) == {DCash(o), DRefs(o), DChain(o), DRefIgn(o), DUnknown(o), DHash(o),
            DCycle(o), DBack(o), DUni(o), DNegative(o), DInline(o), DLoop(o)}

\* Archives without a version header, and with the headers 0x8B, 0x00, 0x10.
Archives ==
    {FixedHeader(16) \o dd : dd \in Dirs(0)}
    \cup {FixedHeader(16) \o <<139, 0>> \o dd : dd \in Dirs(2)}
    \cup {FixedHeader(16) \o <<0, 0>> \o dd : dd \in Dirs(2)}
    \cup {FixedHeader(16) \o <<16, 0>> \o DCash(2)}

\* Archives whose body starts with the byte 0x80: a five-byte entry count
\* of 256, and the version header 0x80.
Archives80 ==
    {FixedHeader(16) \o <<128, 0, 1, 0, 0>> \o FileCash \o FileA,
     FixedHeader(16) \o <<128, 0>> \o DCash(2)}

\* Archives with other headers: a copyright, a wrong magic, body offsets
\* below 16, past the end and above 2^31.
ArchivesHeader ==
    {FixedHeader(20) \o <<116, 101, 115, 116>> \o DCash(0),
     FixedHeader(20) \o <<0, 101, 115, 116>> \o DCash(0),
     FixedHeader(20) \o <<116, 101, 0, 116>> \o DCash(0),
     <<80, 75, 71, 50>> \o Tail(Tail(Tail(Tail(FixedHeader(16))))) \o DCash(0),
     FixedHeader(12) \o DCash(0),
     FixedHeader(200) \o DCash(0),
     Magic \o <<1, 0, 0, 0, 0, 0, 0, 0>> \o <<16, 0, 0, 128>> \o DCash(0)}

\* Every truncation of a few of them.
Truncated ==
    UNION {{SubSeq(f, 1, n) : n \in 0..(Len(f) - 1)} : f \in
        {FixedHeader(16) \o DRefs(0),
         FixedHeader(16) \o <<128, 0, 1, 0, 0>> \o FileCash \o FileA}}

Files == Archives \cup Archives80 \cup ArchivesHeader \cup Truncated

Regions == {"gms", "kms", "sea", "tms", "classic", "bms"}

\* No version, "777", "139" (obfuscates to 0x8B) and "83".
Versions == {<<>>, <<55, 55, 55>>, <<49, 51, 57>>, <<56, 51>>}

\* The deepest chain of Reference frames the model follows.
MaxDepth == 3

----------------------------------------------------------------------------
(* Parse *)

Init ==
    /\ \/ file \in Files /\ region = "gms" /\ userVersion \in Versions
       \/ file \in {FixedHeader(16) \o DCash(0), FixedHeader(16) \o <<139, 0>> \o DCash(2)}
          /\ region \in Regions /\ userVersion \in {<<>>, <<55, 55, 55>>}
    /\ pos = 0
    /\ header = NoHeader
    /\ key = NoKey
    /\ versionHeader = 0
    /\ versionHash = U32Of(0)
    /\ pc = "ReadHeader"
    /\ err = ""
    /\ startPos = 0
    /\ cand = 0
    /\ oldHash = U32Of(0)
    /\ tryResult = FALSE
    /\ probed = <<>>
    /\ stack = <<>>
    /\ ret = NoRet
    /\ d = NoDir
    /\ i = 0
    /\ dir = NoDir
    /\ arg = <<>>
    /\ out = <<>>
    /\ reads = <<>>

bodyOffset == IntOf(header.BodyOffset)

ReadHeader ==
    /\ pc = "ReadHeader"
    /\ LET r == ReadHeaderResult(file)
       IN  /\ header' = r.h
           /\ pos' = r.pos
           /\ err' = r.err
           /\ pc' = IF r.ok THEN "IVForVersion" ELSE "failed"
    /\ UNCHANGED direct
    /\ UNCHANGED <<file, region, userVersion, key, versionHeader, versionHash,
                   startPos, cand, oldHash, tryResult, probed, stack, ret, d, i, dir>>

InitKey ==
    /\ pc = "IVForVersion"
    /\ LET r == IVForVersion(region)
       IN  /\ key' = IF r.ok THEN NewKey(r.iv) ELSE key
           /\ err' = IF r.ok THEN "" ELSE "failed to get IV for game region"
           /\ pc' = IF r.ok THEN "ReadVersionHeader" ELSE "failed"
    /\ UNCHANGED direct
    /\ UNCHANGED <<file, pos, region, userVersion, header, versionHeader, versionHash,
                   startPos, cand, oldHash, tryResult, probed, stack, ret, d, i, dir>>

ReadVersionHeader ==
    /\ pc = "ReadVersionHeader"
    /\ LET r == ReadVersionHeaderResult(file, bodyOffset, pos)
       IN  /\ versionHeader' = r.version
           /\ pos' = r.pos
           /\ err' = IF r.ok THEN "" ELSE "failed to read version header"
           /\ pc' = IF r.ok THEN "determineVersionHash" ELSE "failed"
    /\ UNCHANGED direct
    /\ UNCHANGED <<file, region, userVersion, header, key, versionHash,
                   startPos, cand, oldHash, tryResult, probed, stack, ret, d, i, dir>>

\* determineVersionHash up to its return or its call of bruteforceVersion.
NeedsBruteforce(version, vHeader) ==
    IF version # <<>>
    THEN vHeader # 0 /\ ObfuscateVersionHash(VersionHash(version)) # vHeader
    ELSE TRUE

determineVersionHash ==
    /\ pc = "determineVersionHash"
    /\ versionHash' = IF userVersion # <<>> THEN VersionHash(userVersion)
                      ELSE versionHash
    /\ IF NeedsBruteforce(userVersion, versionHeader)
       THEN /\ pc' = "bruteforceVersion"
            /\ startPos' = pos
            /\ cand' = 1
       ELSE /\ pc' = "ReadDir"
            /\ UNCHANGED <<startPos, cand>>
    /\ UNCHANGED direct
    /\ UNCHANGED <<file, pos, region, userVersion, header, key, versionHeader, err,
                   oldHash, tryResult, probed, stack, ret, d, i, dir>>

candidates == Candidates(getVersionRanges(versionHeader))

candHash == VersionHash(Sprintf(candidates[cand]))

\* The loop of bruteforceVersion: a candidate the header rules out.
BruteforceSkip ==
    /\ pc = "bruteforceVersion"
    /\ cand <= Len(candidates)
    /\ ~MatchesHeader(versionHeader, candHash)
    /\ cand' = cand + 1
    /\ UNCHANGED direct
    /\ UNCHANGED <<file, pos, region, userVersion, header, key, versionHeader,
                   versionHash, pc, err, startPos, oldHash, tryResult, probed,
                   stack, ret, d, i, dir>>

\* tryVersion is called; it returns false at once or goes on to read the
\* first entry under the candidate hash.
TryVersionCall ==
    /\ pc = "bruteforceVersion"
    /\ cand <= Len(candidates)
    /\ MatchesHeader(versionHeader, candHash)
    /\ LET r == TryVersionStart(file, bodyOffset, versionHeader)
       IN  /\ pos' = r.pos
           /\ oldHash' = versionHash
           /\ IF r.ok
              THEN /\ versionHash' = candHash
                   /\ pc' = "tryVersion"
                   /\ UNCHANGED <<tryResult, probed>>
              ELSE /\ versionHash' = versionHash
                   /\ pc' = "tryReturned"
                   /\ tryResult' = FALSE
                   /\ probed' = Append(probed, [v |-> candidates[cand], ok |-> FALSE])
    /\ UNCHANGED direct
    /\ UNCHANGED <<file, region, userVersion, header, key, versionHeader, err,
                   startPos, cand, stack, ret, d, i, dir>>

\* tryVersion without its deferred restore of the hash.
HashAfterTry_Keep(old, tried) == tried

\* The hash tryVersion leaves in the reader when it returns.
HashAfterTry(old, tried) == old

\* tryVersion returns after ReadDirEntryMetadata did.
TryVersionReturn ==
    /\ pc = "tryVersion"
    /\ ret # NoRet
    /\ stack = <<>>
    /\ LET result == ret.kind = "entry" /\ isValidWzName(ret.entry.Name)
       IN  /\ tryResult' = result
           /\ probed' = Append(probed, [v |-> candidates[cand], ok |-> result])
    /\ versionHash' = HashAfterTry(oldHash, versionHash)
    /\ ret' = NoRet
    /\ pc' = "tryReturned"
    /\ UNCHANGED direct
    /\ UNCHANGED <<file, pos, region, userVersion, header, key, versionHeader, err,
                   startPos, cand, oldHash, stack, d, i, dir>>

\* bruteforceVersion without its deferred seek.
BruteforceExitPos_Stay(saved, current) == current

\* The position bruteforceVersion leaves the stream at when it returns.
BruteforceExitPos(saved, current) == DeferredSeek(saved, current)

\* bruteforceVersion accepts the candidate and returns nil; so does
\* determineVersionHash.
BruteforceAccept ==
    /\ pc = "tryReturned"
    /\ tryResult
    /\ versionHash' = candHash
    /\ pos' = BruteforceExitPos(startPos, pos)
    /\ pc' = "ReadDir"
    /\ UNCHANGED direct
    /\ UNCHANGED <<file, region, userVersion, header, key, versionHeader, err,
                   startPos, cand, oldHash, tryResult, probed, stack, ret, d, i, dir>>

BruteforceReject ==
    /\ pc = "tryReturned"
    /\ ~tryResult
    /\ cand' = cand + 1
    /\ pc' = "bruteforceVersion"
    /\ UNCHANGED direct
    /\ UNCHANGED <<file, pos, region, userVersion, header, key, versionHeader,
                   versionHash, err, startPos, oldHash, tryResult, probed, stack,
                   ret, d, i, dir>>

\* determineVersionHash dropping bruteforceVersion's error in every case.
AfterBruteforceError_Ignore(version) == [pc |-> "ReadDir", err |-> ""]

\* What determineVersionHash and Parse do with bruteforceVersion's error:
\* with a version supplied it is logged and Parse goes on to ReadDir,
\* without one it is returned.
AfterBruteforceError(version) ==
    IF version # <<>>
    THEN [pc |-> "ReadDir", err |-> ""]
    ELSE [pc |-> "failed", err |-> "failed to find version: no valid version found"]

\* No candidate is left: bruteforceVersion returns its error.
BruteforceExhausted ==
    /\ pc = "bruteforceVersion"
    /\ cand > Len(candidates)
    /\ pos' = BruteforceExitPos(startPos, pos)
    /\ pc' = AfterBruteforceError(userVersion).pc
    /\ err' = AfterBruteforceError(userVersion).err
    /\ UNCHANGED direct
    /\ UNCHANGED <<file, region, userVersion, header, key, versionHeader, versionHash,
                   startPos, cand, oldHash, tryResult, probed, stack, ret, d, i, dir>>

\* One call of ReadDirEntryMetadata, from tryVersion, from ReadDir's loop or
\* from itself.
ReadDirEntryMetadata ==
    /\ pc \in {"tryVersion", "readEntries"}
    /\ ret = NoRet
    /\ pc = "readEntries" => i < d.EntryCount
    /\ LET r == ReferenceCall(EntryCall(file, pos, bodyOffset, versionHash),
                              Len(stack))
       IN  /\ r.deferred => Len(stack) < MaxDepth
           /\ pos' = r.pos
           /\ stack' = IF r.deferred THEN Append(stack, r.currentPos) ELSE stack
           /\ ret' = IF r.kind = "recurse" THEN NoRet
                     ELSE [kind |-> r.kind, err |-> r.err, entry |-> r.entry]
    /\ UNCHANGED direct
    /\ UNCHANGED <<file, region, userVersion, header, key, versionHeader, versionHash,
                   pc, err, startPos, cand, oldHash, tryResult, probed, d, i, dir>>

\* A call that went through a Reference returns: its deferred Seek runs.
ReturnFromReference ==
    /\ pc \in {"tryVersion", "readEntries"}
    /\ ret # NoRet
    /\ stack # <<>>
    /\ pos' = DeferredSeek(stack[Len(stack)], pos)
    /\ stack' = SubSeq(stack, 1, Len(stack) - 1)
    /\ UNCHANGED direct
    /\ UNCHANGED <<file, region, userVersion, header, key, versionHeader, versionHash,
                   pc, err, startPos, cand, oldHash, tryResult, probed, ret, d, i, dir>>

\* ReadDir up to its loop; make() panics on a negative capacity.
ReadDirCall ==
    /\ pc = "ReadDir"
    /\ LET c == ReadCompressedInt32(file, pos)
       IN  /\ pos' = c.pos
           /\ IF ~c.ok
              THEN /\ pc' = "failed"
                   /\ err' = "failed to read compressed int"
                   /\ UNCHANGED <<d, i>>
              ELSE /\ d' = [EntryCount |-> c.val, EntriesMetadata |-> <<>>, nil |-> FALSE]
                   /\ i' = 0
                   /\ pc' = IF c.val < 0 THEN "panic" ELSE "readEntries"
                   /\ err' = err
    /\ UNCHANGED direct
    /\ UNCHANGED <<file, region, userVersion, header, key, versionHeader, versionHash,
                   startPos, cand, oldHash, tryResult, probed, stack, ret, dir>>

\* ReadDir appending a record for a skipped entry too.
AppendEntry_KeepNil(dd, r) ==
    [dd EXCEPT !.EntriesMetadata = Append(@, r.entry)]

\* ReadDir's loop on a call that returned no error: nil is skipped, an
\* entry is appended.
AppendEntry(dd, r) ==
    IF r.kind = "nil" THEN dd
    ELSE [dd EXCEPT !.EntriesMetadata = Append(@, r.entry)]

\* The body of ReadDir's loop after ReadDirEntryMetadata returned.
ReadDirNext ==
    /\ pc = "readEntries"
    /\ ret # NoRet
    /\ stack = <<>>
    /\ ret' = NoRet
    /\ IF ret.kind = "err"
       THEN /\ pc' = "failed"
            /\ err' = "failed to read entry"
            /\ dir' = DirOnError(d)
            /\ UNCHANGED <<d, i>>
       ELSE /\ d' = AppendEntry(d, ret)
            /\ i' = i + 1
            /\ UNCHANGED <<pc, err, dir>>
    /\ UNCHANGED direct
    /\ UNCHANGED <<file, pos, region, userVersion, header, key, versionHeader,
                   versionHash, startPos, cand, oldHash, tryResult, probed, stack>>

ReadDirReturn ==
    /\ pc = "readEntries"
    /\ ret = NoRet
    /\ i >= d.EntryCount
    /\ dir' = d
    /\ pc' = "done"
    /\ UNCHANGED direct
    /\ UNCHANGED <<file, pos, region, userVersion, header, key, versionHeader,
                   versionHash, err, startPos, cand, oldHash, tryResult, probed,
                   stack, ret, d, i>>

Next ==
    \/ ReadHeader
    \/ InitKey
    \/ ReadVersionHeader
    \/ determineVersionHash
    \/ BruteforceSkip
    \/ TryVersionCall
    \/ TryVersionReturn
    \/ BruteforceAccept
    \/ BruteforceReject
    \/ BruteforceExhausted
    \/ ReadDirEntryMetadata
    \/ ReturnFromReference
    \/ ReadDirCall
    \/ ReadDirNext
    \/ ReadDirReturn

Spec == Init /\ [][Next]_vars

----------------------------------------------------------------------------
(* Properties *)

V777 == <<55, 55, 55>>

BruteforceStates == {"bruteforceVersion", "tryVersion", "tryReturned"}

\* Parse is past determineVersionHash, which returned nil.
Resolved == pc \in {"ReadDir", "readEntries", "done", "panic"}
            \/ (pc = "failed" /\ err \in {"failed to read compressed int",
                                          "failed to read entry"})

\* bruteforceVersion ran and accepted its last probe.
Accepted == probed # <<>> /\ probed[Len(probed)].ok

CashArchive == FixedHeader(16) \o DCash(0)

\* C1: with the gms IV and an archive without a version header whose first
\* root entry decodes to the name "Cash" under version 777, brute force over
\* 770..779 accepts 777 (versionHash = VersionHash("777")) and rejects every
\* candidate probed before it.
C1_Accepts777 ==
    (/\ file = CashArchive
     /\ region = "gms"
     /\ userVersion = <<>>
     /\ EntryCall(file, 17, 16, VersionHash(V777)).entry.Name = <<67, 97, 115, 104>>
     /\ pc = "ReadDir")
    => /\ versionHash = VersionHash(V777)
       /\ \A k \in 1..Len(probed) : probed[k].ok <=> probed[k].v = 777

\* C2: when the 16-bit value at the body offset is 0x80, the detector
\* decodes a compressed int32 at the body offset; if it is in (0, 0xFFFF] it
\* reports no version header and leaves the stream at the body offset,
\* otherwise it reports the header 0x80 and leaves the stream at the body
\* offset + 2.
C2_Disambiguate0x80 ==
    (pc = "determineVersionHash" /\ LE16(file, bodyOffset) = 128)
    => LET c == ReadCompressedInt32(file, bodyOffset)
       IN  IF c.val > 0 /\ c.val <= 65535
           THEN versionHeader = 0 /\ pos = bodyOffset
           ELSE versionHeader = 128 /\ pos = bodyOffset + 2

\* C3: when the 16-bit value V at the body offset is not 0x80, the detector
\* returns 0 and leaves the stream at the body offset if V > 0xFF, and
\* returns V and leaves the stream at the body offset + 2 otherwise; it
\* fails on a readable V only in the 0x80 case.
C3_DetectHeader ==
    /\ (pc = "determineVersionHash" /\ LE16(file, bodyOffset) # 128)
       => IF LE16(file, bodyOffset) > 255
          THEN versionHeader = 0 /\ pos = bodyOffset
          ELSE versionHeader = LE16(file, bodyOffset) /\ pos = bodyOffset + 2
    /\ (pc = "failed" /\ err = "failed to read version header"
        /\ ReadOk(file, bodyOffset, 2))
       => LE16(file, bodyOffset) = 128

C3_Witness ==
    /\ pc = "determineVersionHash"
    /\ LE16(file, bodyOffset) = 139
    /\ versionHeader = 139
    /\ pos = bodyOffset + 2

\* C4: with a user-supplied version v and h = VersionHash(v): if
\* versionHeader is 0 or equals obf(h), the resolved versionHash is h and
\* brute force never runs; otherwise brute force runs and the resolved
\* versionHash is the accepted candidate's hash, or h when no candidate is
\* accepted; determineVersionHash returns no error in any of these cases.
C4_UserVersion ==
    userVersion # <<>> =>
        LET h == VersionHash(userVersion)
            agree == versionHeader = 0 \/ ObfuscateVersionHash(h) = versionHeader
        IN  /\ err # "failed to find version: no valid version found"
            /\ pc \in BruteforceStates => ~agree
            /\ Resolved =>
                  IF agree
                  THEN versionHash = h /\ probed = <<>> /\ cand = 0
                  ELSE /\ cand >= 1
                       /\ versionHash = IF Accepted
                                        THEN VersionHash(Sprintf(probed[Len(probed)].v))
                                        ELSE h

C4_Witness ==
    /\ userVersion = V777
    /\ versionHeader = 139
    /\ pc = "ReadDir"
    /\ Len(probed) = 3
    /\ ~Accepted
    /\ versionHash = VersionHash(V777)

\* C5: bruteforceVersion leaves the stream at the position it was called
\* at, whether it accepts a candidate or exhausts them.
C5_RestoresPosition ==
    /\ [][(pc = "determineVersionHash" /\ pc' = "bruteforceVersion")
            => startPos' = pos]_vars
    /\ [][(pc \in BruteforceStates) => startPos' = startPos]_vars
    /\ [][(pc \in BruteforceStates /\ pc' \notin BruteforceStates)
            => pos' = startPos]_vars

C5_Witness ==
    /\ pc = "ReadDir"
    /\ Accepted
    /\ pos = startPos
    /\ pos = bodyOffset + 2

\* The order the claim gives: 770..779 without a version header; 200..300,
\* 100..199, 80..99, 1..79 with one.
ClaimedOrder(vHeader) ==
    IF vHeader = 0
    THEN [k \in 1..10 |-> 769 + k]
    ELSE [k \in 1..300 |-> IF k <= 101 THEN 199 + k
                           ELSE IF k <= 201 THEN k - 2
                           ELSE IF k <= 221 THEN k - 122
                           ELSE k - 221]

\* C6: the candidates handed to the probe are, in order, those of the fixed
\* order (770..779 without a version header; 200..300, 100..199, 80..99,
\* 1..79 with one) that the header admits; every probe before the last one
\* failed, so the accepted version is the first that passes and nothing is
\* probed after it.
C6_CandidateOrder ==
    (pc \in BruteforceStates \/ (Resolved /\ cand >= 1)
     \/ err = "failed to find version: no valid version found")
    => LET order == ClaimedOrder(versionHeader)
           done == IF pc = "tryReturned" \/ Accepted THEN cand ELSE cand - 1
           Admitted(v) == MatchesHeader(versionHeader, VersionHash(Sprintf(v)))
           tried == SelectSeq(SubSeq(order, 1, done), Admitted)
       IN  /\ done <= Len(order)
           /\ Len(probed) = Len(tried)
           /\ \A k \in 1..Len(probed) : probed[k].v = tried[k]
           /\ \A k \in 1..(Len(probed) - 1) : ~probed[k].ok
           /\ (Resolved /\ Accepted)
                 => versionHash = VersionHash(Sprintf(probed[Len(probed)].v))

C6_Witness ==
    /\ versionHeader = 139
    /\ pc = "bruteforceVersion"
    /\ Len(probed) = 3
    /\ probed[1].v = 139 /\ probed[2].v = 92 /\ probed[3].v = 11

\* C7: with no version supplied, once every candidate has been rejected
\* Parse has failed with the version error and ReadDir never started.
C7_VersionNotFound ==
    /\ (userVersion = <<>> /\ cand > Len(candidates) /\ pc # "bruteforceVersion")
       => /\ pc = "failed"
          /\ err = "failed to find version: no valid version found"
          /\ d = NoDir /\ dir = NoDir
    /\ err = "failed to find version: no valid version found"
       => /\ userVersion = <<>>
          /\ \A k \in 1..Len(probed) : ~probed[k].ok

C7_Witness ==
    /\ userVersion = <<>>
    /\ versionHeader = 139
    /\ Len(probed) = 3
    /\ pc = "failed"
    /\ err = "failed to find version: no valid version found"

\* The entry the claim describes at tag position p: the name by the
\* offset-or-inline string primitive, then file_size and checksum as
\* compressed int32, then data_offset as an encrypted offset.
ClaimedEntry(f, p, bo, vHash) ==
    LET name == ReadOffsetOrInlineString(f, p + 1)
        size == ReadCompressedInt32(f, name.pos)
        sum  == ReadCompressedInt32(f, size.pos)
        off  == ReadEncryptedOffset(f, sum.pos, U32Of(bo), vHash)
    IN  [ok |-> name.ok /\ size.ok /\ sum.ok /\ off.ok,
         pos |-> off.pos,
         entry |-> [Type |-> ByteAt(f, p), Name |-> name.str,
                    FileSize |-> size.val, Checksum |-> sum.val,
                    DataOffset |-> off.val]]

\* C8: a call of the entry decoder that returns a Dir or File entry read
\* its name with the offset-or-inline string primitive, then file_size and
\* checksum as compressed int32, then data_offset as an encrypted offset.
C8_EntryLayout ==
    [][(pc \in {"tryVersion", "readEntries"} /\ ret = NoRet /\ ret'.kind = "entry")
        => LET c == ClaimedEntry(file, pos, bodyOffset, versionHash)
           IN  c.ok /\ ret'.entry = c.entry /\ pos' = c.pos]_vars

C10_NoPartialDirectory ==
    /\ [](err = "failed to read entry"
           => pc = "failed" /\ dir = NoDir /\ i < d.EntryCount)
    /\ [](pc = "done" => err = "" /\ i >= d.EntryCount /\ dir = d)
    /\ [][(pc = "readEntries" /\ stack = <<>> /\ ret.kind = "err")
            => pc' = "failed" /\ err' = "failed to read entry" /\ dir' = NoDir
               /\ d' = d /\ i' = i]_vars

C10_Witness ==
    /\ pc = "failed"
    /\ err = "failed to read entry"
    /\ Len(d.EntriesMetadata) >= 1
    /\ dir = NoDir

\* C11: every entry of the directory ReadDir builds and returns has the tag
\* Dir (3) or File (4); the tag recorded is the one at the position the
\* entry was decoded at, which for a Reference is its target; and what
\* ReadDir appends is the entry the call returned.
C11_EntryKinds ==
    /\ [](\A k \in 1..Len(d.EntriesMetadata) : d.EntriesMetadata[k].Type \in {3, 4})
    /\ [](\A k \in 1..Len(dir.EntriesMetadata) : dir.EntriesMetadata[k].Type \in {3, 4})
    /\ [][(ret = NoRet /\ ret'.kind = "entry")
            => ret'.entry.Type = ByteAt(file, pos) /\ ret'.entry.Type \in {3, 4}]_vars
    /\ [][(Len(d'.EntriesMetadata) > Len(d.EntriesMetadata))
            => /\ ret.kind = "entry" /\ stack = <<>>
               /\ d'.EntriesMetadata = Append(d.EntriesMetadata, ret.entry)]_vars

C11_Witness ==
    /\ file = FixedHeader(16) \o DRefs(0)
    /\ pc = "done"
    /\ Len(dir.EntriesMetadata) = 2
    /\ dir.EntriesMetadata[1].Type = 3
    /\ dir.EntriesMetadata[1].Name = <<77, 97, 112>>
    /\ dir.EntriesMetadata[2].Type = 4

HeaderErrors == {"failed to read magic", "invalid WZ magic",
                 "failed to read body size", "failed to read body offset",
                 "invalid BodyOffset", "failed to read header data"}

\* The archive has the magic PKG1, a complete fixed header and
\* 16 <= body_offset <= stream length.
HeaderValid ==
    /\ Len(file) >= 16
    /\ SubSeq(file, 1, 4) = Magic
    /\ LET bo == Uint32At(file, 12)
       IN  bo.hi < 32768 /\ IntOf(bo) >= 16 /\ IntOf(bo) <= Len(file)

\* C12: once ReadHeader has returned, there is a header exactly when the
\* magic is PKG1 and 16 <= body_offset <= stream length, and it carries
\* that magic and body offset; in every other case (wrong magic, truncated
\* fixed header, body_offset < 16, stream shorter than body_offset) Parse
\* has failed with ReadHeader's error and there is no header.
C12_HeaderValidity ==
    pc # "ReadHeader" =>
        IF HeaderValid
        THEN /\ header # NoHeader
             /\ header.Magic = Magic
             /\ header.BodyOffset = Uint32At(file, 12)
             /\ err \notin HeaderErrors
        ELSE /\ header = NoHeader
             /\ pc = "failed"
             /\ err \in HeaderErrors

C12_Witness ==
    /\ file = FixedHeader(200) \o DCash(0)
    /\ pc = "failed"
    /\ err = "failed to read header data"
    /\ header = NoHeader

\* The longest prefix of bytes made of printable ASCII (32..126) only.
PrintablePrefix(bytes) ==
    LET good == {n \in 0..Len(bytes) :
                    \A k \in 1..n : bytes[k] >= 32 /\ bytes[k] <= 126}
    IN  SubSeq(bytes, 1, CHOOSE n \in good : \A m \in good : m <= n)

\* C13: the copyright ReadHeader returns is the longest printable-ASCII
\* prefix of the bytes between offset 16 and body_offset; it is empty when
\* the first of them is not printable or when body_offset is 16.
C13_CopyrightPrefix ==
    header # NoHeader
    => header.Copyright = PrintablePrefix(SubSeq(file, 17, bodyOffset))

\* The decryption the claim describes: each byte XOR the running mask XOR
\* the key-stream byte of the same index; each UTF-16LE unit XOR the
\* running mask XOR the little-endian pair of key-stream bytes.
ClaimedDecrypt(f, p, n, isUnicode, ks) ==
    IF isUnicode
    THEN [k \in 1..n |->
            Xor16(Xor16(LE16(f, p + 2 * (k - 1)), (43690 + k - 1) % W16),
                  ks[2 * k - 1] + 256 * ks[2 * k])]
    ELSE [k \in 1..n |->
            Xor8(Xor8(ByteAt(f, p + k - 1), (170 + k - 1) % 256), ks[k])]

\* C14: the name of an entry the decoder returns is its stored bytes XOR
\* the running mask XOR the key stream, the key bytes taken in order from
\* index 0 (names with a one-byte length indicator).
C14_MaskAndKey ==
    [][(pc \in {"tryVersion", "readEntries"} /\ ret = NoRet /\ ret'.kind = "entry")
        => LET ind == Int8(ByteAt(file, pos + 1))
               n == IF ind < 0 THEN -ind ELSE ind
           IN  (ind \notin {0, 127, -128} /\ n <= 8)
               => ret'.entry.Name =
                     ClaimedDecrypt(file, pos + 2, n, ind > 0, FirstKeyBlock(key.iv))]_vars

\* The mapping the claim gives, classic included.
ClaimedIV(r) ==
    CASE r = "gms" -> <<77, 35, 199, 43>>
      [] r = "kms" -> <<185, 125, 99, 233>>
      [] r = "sea" -> <<46, 35, 18, 97>>
      [] r = "tms" -> <<46, 18, 97, 154>>
      [] r = "classic" -> <<0, 0, 0, 0>>

\* C15: once Parse is past the IV selection, a region among gms, kms, sea,
\* tms, classic has given the key its IV of the table; any other region has
\* made Parse fail with the unknown-region error before version detection.
C15_RegionTable ==
    (header # NoHeader /\ pc \notin {"ReadHeader", "IVForVersion"})
    => IF region \in {"gms", "kms", "sea", "tms", "classic"}
       THEN key.iv = ClaimedIV(region) /\ err # "failed to get IV for game region"
       ELSE /\ pc = "failed" /\ err = "failed to get IV for game region"
            /\ key = NoKey /\ versionHeader = 0 /\ probed = <<>>

\* C16: when Parse has succeeded, every entry of the directory returned
\* has a data_offset below the stream length.
C16_OffsetsInStream ==
    pc = "done"
    => \A k \in 1..Len(dir.EntriesMetadata) :
          /\ dir.EntriesMetadata[k].DataOffset.hi = 0
          /\ dir.EntriesMetadata[k].DataOffset.lo < Len(file)

----------------------------------------------------------------------------
(* The primitives of package wz called on their own *)

\* The reader's variables but its key, which these calls leave alone.
readerVars == <<file, pos, region, userVersion, header, versionHeader,
                versionHash, pc, err, startPos, cand, oldHash, tryResult,
                probed, stack, ret, d, i, dir>>

\* No reader is running.
NoReader ==
    /\ file = <<>> /\ pos = 0 /\ region = "" /\ userVersion = <<>>
    /\ header = NoHeader /\ versionHeader = 0
    /\ versionHash = U32Of(0) /\ pc = "none" /\ err = ""
    /\ startPos = 0 /\ cand = 0 /\ oldHash = U32Of(0) /\ tryResult = FALSE
    /\ probed = <<>> /\ stack = <<>> /\ ret = NoRet /\ d = NoDir /\ i = 0
    /\ dir = NoDir

\* Arguments of DecryptOffset: positions before and after the body offset,
\* hashes of "777" and "83", 5 and 9 (rotations by 0 and 16), 2^32 - 1.
OffsetArgs ==
    [fn : {"DecryptOffset"},
     currentPos : {U32Of(17), U32Of(26), U32Of(30), U32Of(6)},
     bodyOffset : {U32Of(16), U32Of(20), U32Of(60)},
     versionHash : {U32Of(59192), U32Of(1876), U32Of(5), U32Of(9),
                    U32(65535, 65535)},
     encryptedOffset : {U32Of(0), U32(1027, 513), U32(32768, 0),
                        U32(65535, 65535)}]

\* The four bytes of an int32, lowest first (two's complement).
Int32Bytes(x) ==
    <<x % 256, (x \div 256) % 256, (x \div 65536) % 256, (x \div 16777216) % 256>>

\* The compressed form of x: one byte in -127..127, else 0x80 and the int32.
CompressedInt32Bytes(x) ==
    IF x >= -127 /\ x <= 127 THEN <<x % 256>> ELSE <<128>> \o Int32Bytes(x)

IntValues == {-127, -100, -1, 0, 1, 5, 100, 127, 128, -128, -129, 255, 256, 12345,
              -12345, 65535, 65536, -65536, 16777216, 2147483647, -2147483647,
              -2147483647 - 1}

\* Streams holding the compressed form of x, its five-byte form, or a
\* five-byte form cut short, at position at, with and without bytes before
\* and after.
IntArgs ==
    UNION {{[fn |-> "ReadCompressedInt32", x |-> x, r |-> pre \o enc \o suf,
             at |-> Len(pre)] :
                pre \in {<<>>, <<9, 128>>}, suf \in {<<>>, <<7>>},
                enc \in {CompressedInt32Bytes(x), <<128>> \o Int32Bytes(x),
                         <<128>> \o SubSeq(Int32Bytes(x), 1, 2)}} :
           x \in IntValues}

\* n bytes of string data.
StringBody(n) == [k \in 1..n |-> (37 * k + 11) % 256]

\* Encodings of strings: the one-byte indicators 0, 1, 2, 126, -1, -3,
\* -127 with their data, and the indicators 127 and -128 with a length N
\* that is zero, small, above 127, negative or far beyond the stream.
StringEncodings ==
    {<<0>>}
    \cup {<<L>> \o StringBody(2 * L) : L \in {1, 2, 126}}
    \cup {<<256 - n>> \o StringBody(n) : n \in {1, 3, 127}}
    \cup {<<127>> \o Int32Bytes(N) \o StringBody(2 * N) : N \in {0, 1, 3, 130}}
    \cup {<<128>> \o Int32Bytes(N) \o StringBody(N) : N \in {0, 1, 3, 130}}
    \cup {<<L>> \o Int32Bytes(N) \o StringBody(4) :
              L \in {127, 128},
              N \in {-1, -2147483647 - 1, 2147483647, 1073741824}}

\* Streams holding an encoding whole, without its last byte, or cut after
\* three bytes, at position at, with and without bytes before and after.
StringArgs ==
    UNION {{[fn |-> "ReadEncryptedString", r |-> pre \o cut \o suf,
             at |-> Len(pre)] :
                pre \in {<<>>, <<9, 128>>}, suf \in {<<>>, <<7>>},
                cut \in {enc, SubSeq(enc, 1, Len(enc) - 1),
                         SubSeq(enc, 1, IF Len(enc) > 3 THEN 3 ELSE Len(enc))}} :
           enc \in StringEncodings}

\* Streams for ReadOffsetOrInlineString, the indicator at position at: an
\* inline string whole or cut short; an offset to a string (5), to a string
\* cut short (9), to the indicator itself (0), past the end (100) or
\* negative; an offset field cut short; an unknown indicator.
OffsetStringArgs ==
    {[fn |-> "ReadOffsetOrInlineString", r |-> pre \o body, at |-> Len(pre)] :
        pre \in {<<>>, <<9, 128>>},
        body \in {<<ind>> \o enc :
                      ind \in {0, 115},
                      enc \in {<<0>>, <<253, 233, 202, 223>>, <<2, 1, 2, 3, 4>>,
                               <<253, 233>>}}
                 \cup {<<ind>> \o Int32Bytes(O) \o <<253, 233, 202, 223>> \o <<254, 5>> :
                          ind \in {1, 27},
                          O \in {0, 5, 7, 9, 100, -1, -2147483647 - 1}}
                 \cup {<<ind, 5, 0>> : ind \in {1, 27}}
                 \cup {<<ind>> \o <<253, 233, 202, 223>> : ind \in {2, 114, 255}}}

InitPrimitives ==
    /\ NoReader
    /\ key = NoKey
    /\ arg \in OffsetArgs \cup IntArgs \cup StringArgs \cup OffsetStringArgs
    /\ out = <<>>
    /\ reads = <<>>

CallDecryptOffset ==
    /\ arg.fn = "DecryptOffset"
    /\ out = <<>>
    /\ out' = <<DecryptOffset(arg.currentPos, arg.bodyOffset, arg.versionHash,
                              arg.encryptedOffset)>>
    /\ UNCHANGED <<arg, reads, key>>
    /\ UNCHANGED readerVars

CallReadCompressedInt32 ==
    /\ arg.fn = "ReadCompressedInt32"
    /\ out = <<>>
    /\ out' = <<ReadCompressedInt32(arg.r, arg.at)>>
    /\ UNCHANGED <<arg, reads, key>>
    /\ UNCHANGED readerVars

CallReadEncryptedString ==
    /\ arg.fn = "ReadEncryptedString"
    /\ out = <<>>
    /\ out' = <<ReadEncryptedString(arg.r, arg.at)>>
    /\ UNCHANGED <<arg, reads, key>>
    /\ UNCHANGED readerVars

CallReadOffsetOrInlineString ==
    /\ arg.fn = "ReadOffsetOrInlineString"
    /\ out = <<>>
    /\ out' = <<ReadOffsetOrInlineString(arg.r, arg.at)>>
    /\ UNCHANGED <<arg, reads, key>>
    /\ UNCHANGED readerVars

NextPrimitives ==
    \/ CallDecryptOffset
    \/ CallReadCompressedInt32
    \/ CallReadEncryptedString
    \/ CallReadOffsetOrInlineString

SpecPrimitives == InitPrimitives /\ [][NextPrimitives]_vars

----------------------------------------------------------------------------
(* The key stream: Key.ByteAt and Key.expandTo *)

KeyBatchSize == 4096

\* A byte of the key stream is kept as 16 * g + j: byte j of the block that
\* g applications of block.Encrypt make of the repeated IV.  0 is a zero
\* byte.
BlockOf(b) == b \div 16

\* expandTo starting every expansion from the IV again.
ChainInput_Restart(keyData, startIndex) == 0

\* The input of the first block.Encrypt of an expansion: the repeated IV
\* when i == 0, the 16 bytes before startIndex otherwise.
ChainInput(keyData, startIndex) ==
    IF startIndex = 0 THEN 0 ELSE BlockOf(keyData[startIndex - 16 + 1])

expandTo(k, size) ==
    IF Len(k.keyData) >= size THEN k
    ELSE IF k.iv = <<0, 0, 0, 0>>
    THEN [k EXCEPT !.keyData = [n \in 1..size |-> 0]]
    ELSE LET newSize == ((size + KeyBatchSize - 1) \div KeyBatchSize) * KeyBatchSize
             startIndex == Len(k.keyData)
             input == ChainInput(k.keyData, startIndex)
         IN  [k EXCEPT !.keyData =
                [n \in 1..newSize |->
                    IF n <= startIndex THEN k.keyData[n]
                    ELSE LET j == (n - 1 - startIndex) % 16
                             blocks == ((n - 1 - startIndex) \div 16) + 1
                         IN  16 * (input + blocks) + j]]

\* Key.ByteAt(index): the key after the call, and the byte returned.
KeyByteAt(k, index) ==
    LET expanded == expandTo(k, index + 1)
    IN  [key |-> expanded, value |-> expanded.keyData[index + 1]]

\* The gms IV and the zero IV.
KeyIVs == {<<77, 35, 199, 43>>, <<0, 0, 0, 0>>}

\* Indices at both ends of the first two batches.
KeyIndices == {0, 16, 4095, 4096, 8191}

\* The number of ByteAt calls followed.
MaxReads == 3

InitKeyStream ==
    /\ NoReader
    /\ key \in {NewKey(iv) : iv \in KeyIVs}
    /\ arg = <<>>
    /\ out = <<>>
    /\ reads = <<>>

CallByteAt ==
    /\ Len(reads) < MaxReads
    /\ \E index \in KeyIndices :
          LET r == KeyByteAt(key, index)
          IN  /\ key' = r.key
              /\ reads' = Append(reads, [index |-> index, value |-> r.value])
    /\ UNCHANGED <<arg, out>>
    /\ UNCHANGED readerVars

NextKeyStream ==
    \/ CallByteAt

SpecKeyStream == InitKeyStream /\ [][NextKeyStream]_vars

----------------------------------------------------------------------------
(* Properties of the primitives *)

\* A 32-bit value as four base-256 digits, lowest first.
Digits(u) == <<u.lo % 256, u.lo \div 256, u.hi % 256, u.hi \div 256>>

\* Column sums brought back to four digits, modulo 2^32.
Carry(c) ==
    LET t1 == c[2] + (c[1] \div 256)
        t2 == c[3] + (t1 \div 256)
        t3 == c[4] + (t2 \div 256)
    IN  <<c[1] % 256, t1 % 256, t2 % 256, t3 % 256>>

RefAdd(a, b) == Carry([k \in 1..4 |-> a[k] + b[k]])

RefSub(a, b) == Carry([k \in 1..4 |-> a[k] - b[k]])

RefMul(a, b) ==
    Carry(<<a[1] * b[1],
            a[1] * b[2] + a[2] * b[1],
            a[1] * b[3] + a[2] * b[2] + a[3] * b[1],
            a[1] * b[4] + a[2] * b[3] + a[3] * b[2] + a[4] * b[1]>>)

RefXor(a, b) == [k \in 1..4 |-> Xor8(a[k], b[k])]

\* rotl32(a, n), 0 <= n < 32: whole digits first, then the n % 8 bits.
RefRotl(a, n) ==
    LET q == n \div 8
        r == n % 8
        l == [k \in 1..4 |-> a[((k - 1 - q) % 4) + 1]]
    IN  [k \in 1..4 |->
            ((l[k] * Pow2(r)) % 256) + (l[((k - 2) % 4) + 1] \div Pow2(8 - r))]

\* x after the first four steps of the reference computation.
RefPad(P, B, H) ==
    LET x1 == RefXor(RefSub(P, B), <<255, 255, 255, 255>>)
        x2 == RefMul(x1, H)
        x3 == RefSub(x2, <<109, 63, 28, 88>>)
    IN  RefRotl(x3, x3[1] % 32)

RefDecrypt(P, B, H, E) == RefAdd(RefXor(RefPad(P, B, H), E), RefAdd(B, B))

\* The encryption the round trip is stated for: the inverse steps.
RefEncrypt(P, B, H, abs) == RefXor(RefSub(abs, RefAdd(B, B)), RefPad(P, B, H))

\* The uint32 of four digits.
OfDigits(a) == U32(a[3] + 256 * a[4], a[1] + 256 * a[2])

\* C17: DecryptOffset returns what the reference computation gives, every
\* step modulo 2^32; for fixed P, B, H distinct encrypted offsets decrypt to
\* distinct offsets; and decrypting the encryption of an offset returns it.
C17_DecryptOffset ==
    (arg # <<>> /\ arg.fn = "DecryptOffset" /\ out # <<>>)
    => LET P == arg.currentPos
           B == arg.bodyOffset
           H == arg.versionHash
       IN  /\ out[1] = OfDigits(RefDecrypt(Digits(P), Digits(B), Digits(H),
                                           Digits(arg.encryptedOffset)))
           /\ \A a \in OffsetArgs :
                 a.encryptedOffset # arg.encryptedOffset
                 => DecryptOffset(P, B, H, a.encryptedOffset) # out[1]
           /\ DecryptOffset(P, B, H,
                 OfDigits(RefEncrypt(Digits(P), Digits(B), Digits(H),
                                     Digits(arg.encryptedOffset))))
              = arg.encryptedOffset

\* P < B and a rotation by 0.
C17_Witness ==
    /\ arg # <<>> /\ arg.fn = "DecryptOffset" /\ out # <<>>
    /\ arg.currentPos = U32Of(6) /\ arg.bodyOffset = U32Of(16)
    /\ arg.versionHash = U32Of(5)
    /\ arg.encryptedOffset = U32(1027, 513)
    /\ RefSub(Digits(arg.currentPos), Digits(arg.bodyOffset)) = <<246, 255, 255, 255>>
    /\ RefPad(<<6, 0, 0, 0>>, <<16, 0, 0, 0>>, <<5, 0, 0, 0>>)
          = RefSub(<<45, 0, 0, 0>>, <<109, 63, 28, 88>>)
    /\ out[1] = OfDigits(RefDecrypt(<<6, 0, 0, 0>>, <<16, 0, 0, 0>>, <<5, 0, 0, 0>>,
                                    <<1, 2, 3, 4>>))

\* C18: every ByteAt(n) made so far returned the byte a new key of the same
\* IV returns for n in a single expansion, whatever calls came before; and
\* a call never changes a byte of the key stream that was already there.
C18_KeyStreamStable ==
    /\ [](\A c \in 1..Len(reads) :
            reads[c].value = KeyByteAt(NewKey(key.iv), reads[c].index).value)
    /\ [][/\ Len(key'.keyData) >= Len(key.keyData)
          /\ SubSeq(key'.keyData, 1, Len(key.keyData)) = key.keyData]_vars

\* Byte 4096 read after the first batch was already there, then byte 0.
C18_Witness ==
    /\ key.iv = <<77, 35, 199, 43>>
    /\ Len(reads) = 3
    /\ reads[1].index = 16 /\ reads[2].index = 4096 /\ reads[3].index = 0
    /\ reads[2].value = 16 * 257
    /\ Len(key.keyData) = 2 * KeyBatchSize

\* C19: on a stream that holds the bytes the form needs,
\* ReadCompressedInt32 returns the first byte, signed, and consumes 1 byte
\* when that byte is not -128, and otherwise returns the little-endian
\* int32 that follows and consumes 5 bytes; so it returns x on the one-byte
\* form of x in -127..127 and on the five-byte form of any x.
C19_CompressedInt32 ==
    (arg # <<>> /\ arg.fn = "ReadCompressedInt32" /\ out # <<>>)
    => LET b == arg.r[arg.at + 1]
           sb == IF b >= 128 THEN b - 256 ELSE b
           needed == IF b = 128 THEN 5 ELSE 1
       IN  IF Len(arg.r) >= arg.at + needed
           THEN /\ out[1].ok
                /\ IF sb # -128
                   THEN out[1].val = sb /\ out[1].pos = arg.at + 1
                   ELSE out[1].pos = arg.at + 5
                /\ out[1].val = arg.x
           ELSE ~out[1].ok

\* 80 39 30 00 00 decodes to 12345.
C19_Witness ==
    /\ arg # <<>> /\ arg.fn = "ReadCompressedInt32"
    /\ arg.r = <<128, 57, 48, 0, 0>>
    /\ arg.at = 0
    /\ out = <<[ok |-> TRUE, val |-> 12345, pos |-> 5]>>

\* The detector found a version header: the stored 16-bit value is at most
\* 0xFF and, when it is 0x80, was reported as a header.
CarriesHeader ==
    /\ header # NoHeader
    /\ pc \notin {"ReadHeader", "IVForVersion", "ReadVersionHeader", "failed", "none"}
    /\ LE16(file, bodyOffset) <= 255
    /\ LE16(file, bodyOffset) = 128 => versionHeader = 128

\* C20: for an archive detected as carrying a version header, whatever
\* the stored value in 0x00..0xFF, every candidate handed to the probe comes
\* from the ranges 1..300 and obfuscates to the stored header, and the probe
\* reads the root directory's entry count at body_offset + 2.
C20_HeaderPresentProbe ==
    /\ [](CarriesHeader
          => \A k \in 1..Len(probed) :
                /\ probed[k].v \in 1..300
                /\ ObfuscateVersionHash(VersionHash(Sprintf(probed[k].v)))
                      = LE16(file, bodyOffset))
    /\ [][(CarriesHeader /\ pc = "bruteforceVersion" /\ pc' # "bruteforceVersion"
           /\ cand <= Len(candidates))
            => pos' = ReadCompressedInt32(file, bodyOffset + 2).pos]_vars

\* obf(h) as the format defines it: the complement of the XOR of the four
\* little-endian bytes of h, kept to 8 bits.
ClaimedObf(h) ==
    LET b == Digits(h)
    IN  255 - Xor8(Xor8(b[1], b[2]), Xor8(b[3], b[4]))

\* C21: on an archive with a non-zero version header, every candidate
\* handed to the probe has obf(hash) equal to the header, the hash left by a
\* successful brute force has obf equal to the header, and a candidate whose
\* obf differs is passed over without being probed or accepted.
C21_HeaderFilter ==
    /\ [](versionHeader # 0
          => \A k \in 1..Len(probed) :
                ClaimedObf(VersionHash(Sprintf(probed[k].v))) = versionHeader)
    /\ []((versionHeader # 0 /\ Resolved /\ Accepted)
          => ClaimedObf(versionHash) = versionHeader)
    /\ [][(/\ pc = "bruteforceVersion" /\ versionHeader # 0
           /\ cand <= Len(candidates)
           /\ ClaimedObf(candHash) # versionHeader)
            => /\ pc' = "bruteforceVersion" /\ cand' = cand + 1
               /\ probed' = probed /\ versionHash' = versionHash
               /\ pos' = pos]_vars

\* 139 is accepted after the 140 candidates before it were passed over.
C21_Witness ==
    /\ versionHeader = 139
    /\ userVersion = <<>>
    /\ pc = "ReadDir"
    /\ Accepted
    /\ cand = 141
    /\ probed = <<[v |-> 139, ok |-> TRUE]>>
    /\ versionHash = VersionHash(<<49, 51, 57>>)
    /\ ClaimedObf(versionHash) = 139

\* The entry count the probe reads is missing or not in (0, 1000].
ProbeCountBad ==
    LET c == ReadCompressedInt32(file, IF versionHeader # 0 THEN bodyOffset + 2
                                       ELSE bodyOffset)
    IN  ~c.ok \/ c.val <= 0 \/ c.val > 1000

\* is_valid_wz_name as the format defines it: 1 to 100 characters, all
\* among A-Z, a-z, 0-9, '_', '.', '-', at least one of them a letter.
ClaimedValidName(s) ==
    LET chars == {s[k] : k \in 1..Len(s)}
        letters == (65..90) \cup (97..122)
    IN  /\ Len(s) \in 1..100
        /\ chars \subseteq (letters \cup (48..57) \cup {95, 46, 45})
        /\ chars \cap letters # {}

\* C22: during brute force no error is set; a probe whose entry count is
\* not in (0, 1000], whose first entry fails to decode, or whose first
\* entry's name is not a valid WZ name returns false; and after a probe
\* that returned false the loop goes on to the next candidate with the
\* error and the version hash as they were.
C22_FailedProbeSkipped ==
    /\ [](pc \in BruteforceStates => err = "")
    /\ [][(/\ pc = "bruteforceVersion" /\ cand <= Len(candidates)
           /\ probed' # probed /\ ProbeCountBad)
            => /\ pc' = "tryReturned" /\ ~tryResult' /\ err' = err
               /\ ~probed'[Len(probed')].ok]_vars
    /\ [][(pc = "bruteforceVersion" /\ pc' = "tryVersion") => ~ProbeCountBad]_vars
    /\ [][(/\ pc = "tryVersion" /\ pc' = "tryReturned"
           /\ (ret.kind = "err" \/ ~ClaimedValidName(ret.entry.Name)))
            => ~tryResult' /\ err' = err /\ ~probed'[Len(probed')].ok]_vars
    /\ [][(pc = "tryReturned" /\ ~tryResult)
            => /\ pc' = "bruteforceVersion" /\ cand' = cand + 1
               /\ err' = err /\ versionHash' = versionHash
               /\ probed' = probed]_vars

\* The name "#" was rejected for 770 and 771; 772 is next.
C22_Witness ==
    /\ file = FixedHeader(16) \o DHash(0)
    /\ userVersion = <<>>
    /\ pc = "bruteforceVersion"
    /\ cand = 3
    /\ probed = <<[v |-> 770, ok |-> FALSE], [v |-> 771, ok |-> FALSE]>>
    /\ err = ""
    /\ versionHash = U32Of(0)

\* ReadDir is in its loop or has returned its directory.
InReadDir == pc \in {"readEntries", "done"}

\* C23: ReadDir takes the slots in order; a slot that resolves to an entry
\* appends it after those already there, a slot that resolves to Ignore
\* appends nothing, and an Ignore entry consumes its tag and 10 bytes; so
\* the entries never outnumber the slots read, and the directory returned
\* on success is the one built, every slot read.
C23_SlotsInOrder ==
    /\ [][(pc = "readEntries" /\ i' # i)
            => /\ i' = i + 1 /\ stack = <<>>
               /\ d'.EntryCount = d.EntryCount
               /\ d'.EntriesMetadata =
                     IF ret.kind = "nil" THEN d.EntriesMetadata
                     ELSE Append(d.EntriesMetadata, ret.entry)]_vars
    /\ [][(pc = "readEntries" /\ d'.EntriesMetadata # d.EntriesMetadata)
            => i' = i + 1]_vars
    /\ [][(pc \in {"tryVersion", "readEntries"} /\ ret = NoRet /\ ret'.kind = "nil")
            => ByteAt(file, pos) = 1 /\ pos' = pos + 11]_vars
    /\ [][(pc = "ReadDir" /\ pc' = "readEntries")
            => i' = 0 /\ d'.EntriesMetadata = <<>>]_vars
    /\ [](InReadDir => Len(d.EntriesMetadata) <= i /\ i <= d.EntryCount)
    /\ [](pc = "done" => dir = d /\ i = d.EntryCount)

\* Three slots: a Reference to the Dir "Map", an Ignore entry, the File
\* "Etc"; two entries are returned, Map first.
C23_Witness ==
    /\ file = FixedHeader(16) \o DRefs(0)
    /\ pc = "done"
    /\ dir.EntryCount = 3
    /\ i = 3
    /\ pos = 44
    /\ Len(dir.EntriesMetadata) = 2
    /\ dir.EntriesMetadata[1].Name = <<77, 97, 112>>
    /\ dir.EntriesMetadata[2].Name = <<69, 116, 99>>

\* The stream at p holds a Reference whose offset can be read and sought.
RefAt(p) ==
    /\ ReadOk(file, p, 1) /\ ByteAt(file, p) = 2
    /\ ReadOk(file, p + 1, 4)
    /\ bodyOffset + Int32At(file, p + 1) >= 0

RefTarget(p) == bodyOffset + Int32At(file, p + 1)

\* The Reference at p leads back to p in one or two steps.
OnCycle(p) ==
    /\ RefAt(p)
    /\ \/ RefTarget(p) = p
       \/ RefAt(RefTarget(p)) /\ RefTarget(RefTarget(p)) = p

Decoding == pc \in {"tryVersion", "readEntries"} /\ ret = NoRet

\* C24: a call of the decoder at a Reference recurses at its target
\* whatever the number of Reference frames pending; the entry a chain ends
\* in is returned up the chain unchanged; and a call on a cycle of
\* References only ever makes another call on the cycle, so it never
\* returns.
C24_NoDepthLimit ==
    /\ [][(Decoding /\ RefAt(pos) /\ stack' # stack)
            => /\ stack' = Append(stack, pos + 5)
               /\ pos' = RefTarget(pos)
               /\ ret' = NoRet /\ pc' = pc]_vars
    /\ [][(Decoding /\ ret'.kind = "entry")
            => /\ ByteAt(file, pos) \in {3, 4}
               /\ stack' = stack
               /\ ret'.entry = EntryCall(file, pos, bodyOffset, versionHash).entry]_vars
    /\ [][(ret # NoRet /\ stack # <<>>) => ret' = ret]_vars
    /\ [][(Decoding /\ OnCycle(pos))
            => /\ Decoding' /\ OnCycle(pos') /\ pc' = pc
               /\ Len(stack') = Len(stack) + 1
               /\ d' = d /\ i' = i /\ err' = err]_vars

\* The two-step cycle, as deep as the model follows it, nothing returned.
C24_Witness ==
    /\ file = FixedHeader(16) \o DLoop(0)
    /\ pc = "readEntries"
    /\ i = 0
    /\ ret = NoRet
    /\ Len(stack) = MaxDepth
    /\ \A k \in 1..Len(stack) : stack[k] = IF k % 2 = 1 THEN 22 ELSE 27
    /\ OnCycle(pos)

\* The signed value of a byte, and of four little-endian bytes of r at p.
SignedByte(b) == IF b >= 128 THEN b - 256 ELSE b

SignedLE32(r, p) ==
    r[p + 1] + 256 * r[p + 2] + 65536 * r[p + 3] + 16777216 * SignedByte(r[p + 4])

\* C25: with L the signed length indicator and N the signed 32-bit length
\* after an indicator of 127 or -128, ReadEncryptedString succeeds exactly
\* when the indicator (and N) can be read, N is not negative and the data
\* is there; it then consumes 1 byte for L = 0, 1 + 2L for 1 <= L <= 126,
\* 5 + 2N for L = 127, 1 + |L| for -127 <= L <= -1 and 5 + N for L = -128,
\* and returns L, N or |L| units (UTF-16 for L > 0).
C25_StringConsumption ==
    (arg # <<>> /\ arg.fn = "ReadEncryptedString" /\ out # <<>>)
    => LET r == arg.r
           at == arg.at
           left == Len(r) - at
           L == SignedByte(r[at + 1])
           long == L \in {127, -128}
           N == SignedLE32(r, at + 1)
           units == IF long THEN N ELSE IF L < 0 THEN -L ELSE L
           head == IF long THEN 5 ELSE 1
           wide == IF L > 0 THEN 2 ELSE 1
       IN  IF left < 1 THEN ~out[1].ok
           ELSE IF long /\ left < 5 THEN ~out[1].ok
           ELSE IF units < 0 THEN ~out[1].ok
           ELSE IF units > (left - head) \div wide THEN ~out[1].ok
           ELSE /\ out[1].ok
                /\ out[1].pos = at + head + wide * units
                /\ Len(out[1].str) = units

\* 7F 03 00 00 00 and six bytes of data: 11 bytes consumed, three units.
C25_Witness ==
    /\ arg # <<>> /\ arg.fn = "ReadEncryptedString"
    /\ arg.r = <<9, 128>> \o <<127, 3, 0, 0, 0>> \o StringBody(6) \o <<7>>
    /\ arg.at = 2
    /\ out # <<>>
    /\ out[1].ok /\ out[1].pos = 13 /\ Len(out[1].str) = 3

\* C26: with the indicator 0x01 or 0x1B and a readable offset field O,
\* ReadOffsetOrInlineString leaves the stream right after the field, and it
\* succeeds, with the string read at O, exactly when O can be sought and the
\* string there can be read; with 0x00 or 0x73 it does what
\* ReadEncryptedString does right after the indicator; with any other
\* indicator it fails.
C26_OffsetOrInline ==
    (arg # <<>> /\ arg.fn = "ReadOffsetOrInlineString" /\ out # <<>>
     /\ Len(arg.r) > arg.at)
    => LET r == arg.r
           at == arg.at
           I == r[at + 1]
           O == SignedLE32(r, at + 1)
           there == ReadEncryptedString(r, O)
       IN  IF I \in {1, 27}
           THEN Len(r) >= at + 5
                => /\ out[1].pos = at + 5
                   /\ out[1].ok <=> (O >= 0 /\ there.ok)
                   /\ out[1].ok => out[1].str = there.str
           ELSE IF I \in {0, 115}
           THEN out[1] = ReadEncryptedString(r, at + 1)
           ELSE ~out[1].ok

\* The offset 9 leads to a string cut short: the read fails there and the
\* stream is back at 5.
C26_Witness ==
    /\ arg # <<>> /\ arg.fn = "ReadOffsetOrInlineString"
    /\ arg.r = <<1, 9, 0, 0, 0, 253, 233, 202, 223, 254, 5>>
    /\ arg.at = 0
    /\ out # <<>>
    /\ ~out[1].ok /\ out[1].pos = 5
    /\ ReadEncryptedString(arg.r, 9).pos = 11

\* C27: a ByteAt(i) leaves the key stream with ceil((i + 1) / 4096) * 4096
\* bytes when that is more than it had and with the bytes it had otherwise,
\* for the zero IV as for the others; so its length is always a multiple
\* of 4096.
C27_BatchLength ==
    /\ [](Len(key.keyData) % 4096 = 0)
    /\ [][(Len(reads') = Len(reads) + 1)
            => LET index == reads'[Len(reads')].index
                   need == ((index + 4096) \div 4096) * 4096
               IN  Len(key'.keyData) =
                      IF need > Len(key.keyData) THEN need
                      ELSE Len(key.keyData)]_vars

\* body_offset as stored in bytes 12..15 of the archive (below 2^31).
StoredBodyOffset ==
    file[13] + 256 * file[14] + 65536 * file[15] + 16777216 * file[16]

\* C28: a successful ReadHeader leaves the stream at the stored
\* body_offset, whatever bytes lie between offset 16 and it; the stream is
\* still there when the version header is detected, so the 16-bit value
\* the detector reads, and the header it reports, is the one at
\* body_offset.
C28_StreamAtBodyOffset ==
    /\ [][(pc = "ReadHeader" /\ pc' = "IVForVersion")
            => pos' = StoredBodyOffset /\ header'.BodyOffset = U32Of(StoredBodyOffset)]_vars
    /\ [](pc \in {"IVForVersion", "ReadVersionHeader"} => pos = StoredBodyOffset)
    /\ [][(pc = "ReadVersionHeader" /\ pc' = "determineVersionHash")
            => LET V == file[StoredBodyOffset + 1] + 256 * file[StoredBodyOffset + 2]
               IN  /\ Len(file) >= StoredBodyOffset + 2
                   /\ versionHeader' \in {0, V}
                   /\ (V > 255 => versionHeader' = 0)
                   /\ (V <= 255 /\ V # 128 => versionHeader' = V)]_vars

\* A copyright region with a NUL in it: the stream is at 20 all the same.
C28_Witness ==
    /\ file = FixedHeader(20) \o <<116, 101, 0, 116>> \o DCash(0)
    /\ pc = "ReadVersionHeader"
    /\ header.Copyright = <<116, 101>>
    /\ pos = 20
    /\ StoredBodyOffset = 20

\* versionHash when brute force starts: the hash of the version supplied,
\* 0 without one.
HashBefore == IF userVersion = <<>> THEN U32Of(0) ELSE VersionHash(userVersion)

\* C29: tryVersion saves the hash it finds at its call and the hash is that
\* one again when it has returned, true or false; so between probes, and
\* when bruteforceVersion has returned its error, versionHash is what it
\* was before brute force started: the hash of the supplied version, or 0.
C29_NoHashLeak ==
    /\ [][(pc = "bruteforceVersion" /\ pc' \in {"tryVersion", "tryReturned"})
            => oldHash' = versionHash]_vars
    /\ [][(pc = "tryVersion" /\ pc' = "tryReturned") => versionHash' = oldHash]_vars
    /\ [][(pc = "bruteforceVersion" /\ pc' = "tryReturned")
            => versionHash' = versionHash]_vars
    /\ []((cand >= 1 /\ pc # "tryVersion" /\ (pc \in BruteforceStates \/ ~Accepted))
          => versionHash = HashBefore)
    /\ [](err = "failed to find version: no valid version found"
          => versionHash = U32Of(0))

\* The probe of 770 has returned true, and the hash is 0 as before it.
C29_Witness ==
    /\ userVersion = <<>>
    /\ pc = "tryReturned"
    /\ tryResult
    /\ probed = <<[v |-> 770, ok |-> TRUE]>>
    /\ oldHash = U32Of(0)
    /\ versionHash = U32Of(0)

\* C30: whatever entry count ReadDir decodes, negative ones included, it
\* goes on to return a directory or an error; the walker is never in a
\* panic.
C30_NoPanic ==
    /\ [](pc # "panic")
    /\ [][(pc = "ReadDir" /\ pc' # pc) => pc' \in {"readEntries", "failed"}]_vars

====
